---- MODULE Spec2Model ----
(***************************************************************************)
(* Persistence and data-integrity subsystem of angles-proto: the sanitizing *)
(* migration (migrateAndSanitize), the admin handlers that mutate the       *)
(* in-memory snapshot, the debounced write scheduler, the backup ring and   *)
(* the quota guard.                                                         *)
(*                                                                          *)
(* Conventions of the model                                                 *)
(*  - a JavaScript string is a sequence of characters (one-character TLA+   *)
(*    strings); an image reference is a sequence of chunks whose first      *)
(*    chunk is the prefix that startsWith() inspects;                       *)
(*  - a raw JSON value is a record [t, s, n]: t is its JavaScript type,     *)
(*    s its characters when it is a string, n its value when it is a number;*)
(*  - numbers are held in tenths (28.2 is 282);                             *)
(*  - cryptoRandomId() is a supply of fresh identifiers drawn by a counter. *)
(***************************************************************************)
EXTENDS Integers, Sequences, FiniteSets, TLC

(* ------------------------------------------------------------------ *)
(* Program constants                                                   *)
(* ------------------------------------------------------------------ *)
LS_VERSION == 1
MAX_BACKUPS == 5
DELAY == 500

(* ------------------------------------------------------------------ *)
(* Strings                                                             *)
(* ------------------------------------------------------------------ *)
Lowers == <<"a","b","c","d","e","f","g","h","i","j","k","l","m",
            "n","o","p","q","r","s","t","u","v","w","x","y","z">>
Uppers == <<"A","B","C","D","E","F","G","H","I","J","K","L","M",
            "N","O","P","Q","R","S","T","U","V","W","X","Y","Z">>
Digits == <<"0","1","2","3","4","5","6","7","8","9">>
WhiteSpace == {" ", "\t"}

IndexOf(c, seq) ==
  IF \E i \in 1..Len(seq) : seq[i] = c
  THEN CHOOSE i \in 1..Len(seq) : seq[i] = c
  ELSE 0

ToLowerChar(c) == IF IndexOf(c, Uppers) > 0 THEN Lowers[IndexOf(c, Uppers)] ELSE c

\* String.prototype.toLowerCase
toLowerCase(s) == [i \in 1..Len(s) |-> ToLowerChar(s[i])]

RECURSIVE TrimStart(_)
TrimStart(s) ==
  IF s # <<>> /\ Head(s) \in WhiteSpace THEN TrimStart(Tail(s)) ELSE s

RECURSIVE TrimEnd(_)
TrimEnd(s) ==
  IF s # <<>> /\ s[Len(s)] \in WhiteSpace THEN TrimEnd(SubSeq(s, 1, Len(s) - 1)) ELSE s

\* String.prototype.trim
trim(s) == TrimEnd(TrimStart(s))

\* s.replace(/\s+/g, " "): every run of whitespace becomes one space
RECURSIVE CollapseWs(_)
CollapseWs(s) ==
  IF s = <<>> THEN <<>>
  ELSE IF Head(s) \in WhiteSpace
       THEN <<" ">> \o CollapseWs(TrimStart(s))
       ELSE <<Head(s)>> \o CollapseWs(Tail(s))

(* ------------------------------------------------------------------ *)
(* Raw JSON values                                                     *)
(* ------------------------------------------------------------------ *)
JV(t, s, n) == [t |-> t, s |-> s, n |-> n]
Undefined == JV("undefined", <<>>, 0)
JNull == JV("null", <<>>, 0)
JStr(s) == JV("string", s, 0)
JNum(n) == JV("number", <<>>, n)
JOther == JV("other", <<>>, 0)      \* an object: no string, no number
JInfinity == JV("infinity", <<>>, 0)  \* a number that is not finite (1e999 in JSON)

\* String(s || ""): null, undefined and "" give "", a string gives itself, an
\* object gives "[object Object]"; numbers are not drawn as names.
StringOrEmpty(v) ==
  CASE v.t = "string" -> v.s
    [] v.t = "other" -> <<"[","o","b","j","e","c","t"," ","O","b","j","e","c","t","]">>
    [] OTHER -> <<>>

normalizeHoldNameSafe(v) == CollapseWs(trim(StringOrEmpty(v)))

(* ------------------------------------------------------------------ *)
(* sortHolds: a stable sort by localeCompare(..., {sensitivity: "base"}) *)
(* ------------------------------------------------------------------ *)
\* Primary collation weight of a character: letter case is ignored, white
\* space and punctuation sort before digits, digits before letters.
BaseRank(c) ==
  IF c \in WhiteSpace THEN 0
  ELSE IF IndexOf(c, Digits) > 0 THEN 1 + IndexOf(c, Digits)
  ELSE IF IndexOf(ToLowerChar(c), Lowers) > 0 THEN 11 + IndexOf(ToLowerChar(c), Lowers)
  ELSE 1

\* a.localeCompare(b, undefined, {sensitivity: "base"}) as -1, 0 or 1
RECURSIVE localeCompare(_, _)
localeCompare(a, b) ==
  IF a = <<>> /\ b = <<>> THEN 0
  ELSE IF a = <<>> THEN -1
  ELSE IF b = <<>> THEN 1
  ELSE IF BaseRank(Head(a)) < BaseRank(Head(b)) THEN -1
  ELSE IF BaseRank(Head(a)) > BaseRank(Head(b)) THEN 1
  ELSE localeCompare(Tail(a), Tail(b))

\* x goes after every element that does not sort after it (stability)
RECURSIVE InsertSorted(_, _)
InsertSorted(x, sorted) ==
  IF sorted = <<>> THEN <<x>>
  ELSE IF localeCompare(Head(sorted), x) <= 0
       THEN <<Head(sorted)>> \o InsertSorted(x, Tail(sorted))
       ELSE <<x>> \o sorted

RECURSIVE SortFrom(_, _)
SortFrom(rest, sorted) ==
  IF rest = <<>> THEN sorted ELSE SortFrom(Tail(rest), InsertSorted(Head(rest), sorted))

sortHolds(holds) == SortFrom(holds, <<>>)

Range(seq) == {seq[i] : i \in 1..Len(seq)}

(* ------------------------------------------------------------------ *)
(* sanitizeHoldList                                                    *)
(* ------------------------------------------------------------------ *)
\* a loop that compares the names as they are spelled
RECURSIVE UniqueFromExact(_, _, _)
UniqueFromExact(cleaned, seen, unique) ==
  IF cleaned = <<>> THEN unique
  ELSE IF Head(cleaned) \in seen
       THEN UniqueFromExact(Tail(cleaned), seen, unique)
       ELSE UniqueFromExact(Tail(cleaned), seen \cup {Head(cleaned)},
                            Append(unique, Head(cleaned)))

\* the loop over `cleaned`: a name whose lower-case form was seen is skipped
RECURSIVE UniqueFrom(_, _, _)
UniqueFrom(cleaned, seen, unique) ==
  IF cleaned = <<>> THEN unique
  ELSE LET h == Head(cleaned)
           key == toLowerCase(h)
       IN IF key \in seen
          THEN UniqueFrom(Tail(cleaned), seen, unique)
          ELSE UniqueFrom(Tail(cleaned), seen \cup {key}, Append(unique, h))

\* arr.map(normalizeHoldNameSafe).filter(Boolean)
Cleaned(arr) ==
  SelectSeq([i \in 1..Len(arr) |-> normalizeHoldNameSafe(arr[i])], LAMBDA h : h # <<>>)

\* holds is a raw field [t, l]: anything that is not an array counts as []
sanitizeHoldList(holds) ==
  LET arr == IF holds.t = "array" THEN holds.l ELSE <<>>
  IN sortHolds(UniqueFrom(Cleaned(arr), {}, <<>>))
(* ------------------------------------------------------------------ *)
(* Numbers: Number(String(raw ?? "").replace(",", "."))                 *)
(* ------------------------------------------------------------------ *)
NaN == [finite |-> FALSE, n |-> 0]
Finite(n) == [finite |-> TRUE, n |-> n]

\* s.replace(",", "."): the first comma only
ReplaceAt(s, i) == IF i = 0 THEN s ELSE [k \in 1..Len(s) |-> IF k = i THEN "." ELSE s[k]]
ReplaceFirstComma(s) == ReplaceAt(s, IndexOf(",", s))

IsDigits(s) == \A i \in 1..Len(s) : IndexOf(s[i], Digits) > 0

RECURSIVE DigitsValue(_)
DigitsValue(s) ==
  IF s = <<>> THEN 0
  ELSE 10 * DigitsValue(SubSeq(s, 1, Len(s) - 1)) + (IndexOf(s[Len(s)], Digits) - 1)

\* an unsigned decimal literal with integer part int and decimals frac, in
\* tenths (further decimals are cut off)
DecimalToNumber(int, frac) ==
  IF ~IsDigits(int) \/ ~IsDigits(frac) \/ (int = <<>> /\ frac = <<>>)
  THEN NaN
  ELSE Finite(10 * DigitsValue(int)
              + (IF frac = <<>> THEN 0 ELSE IndexOf(frac[1], Digits) - 1))

SplitDecimal(s, dot) ==
  IF dot = 0 THEN DecimalToNumber(s, <<>>)
  ELSE DecimalToNumber(SubSeq(s, 1, dot - 1), SubSeq(s, dot + 1, Len(s)))

UnsignedToNumber(s) == SplitDecimal(s, IndexOf(".", s))

Negated(u) == IF u.finite THEN Finite(0 - u.n) ELSE NaN

\* Number(t) of a trimmed string: "" is 0, a sign is allowed
TrimmedToNumber(t) ==
  IF t = <<>> THEN Finite(0)
  ELSE IF Head(t) = "-" THEN Negated(UnsignedToNumber(Tail(t)))
  ELSE UnsignedToNumber(IF Head(t) = "+" THEN Tail(t) ELSE t)

\* Number(s) of a string: white space is trimmed first
StringToNumber(s) == TrimmedToNumber(trim(s))

\* typeof raw === "number" ? raw : Number(String(raw ?? "").replace(",", "."))
ToNum(raw) ==
  CASE raw.t = "number" -> Finite(raw.n)
    [] raw.t = "string" -> StringToNumber(ReplaceFirstComma(raw.s))
    [] raw.t \in {"undefined", "null"} -> Finite(0)
    [] raw.t = "infinity" -> NaN
    [] OTHER -> NaN

Min(a, b) == IF a < b THEN a ELSE b
Max(a, b) == IF a > b THEN a ELSE b

\* Math.max(a, Math.min(b, n))
clamp(n, a, b) == Max(a, Min(b, n))

(* ------------------------------------------------------------------ *)
(* sanitizeAngle                                                       *)
(* ------------------------------------------------------------------ *)
\* cryptoRandomId(): the n-th identifier of the supply
cryptoRandomId(n) == <<"uuid", ToString(n)>>

DATA_IMAGE == "data:image/"
NoImage == <<>>

\* typeof v === "string" && v.startsWith("data:image/")
IsDataImage(v) == v.t = "string" /\ v.s # <<>> /\ v.s[1] = DATA_IMAGE

\* a value that is only kept from exceeding 90
ValueOfCappedAbove(num) == IF num.finite THEN Min(900, num.n) ELSE 0

\* Number.isFinite(num) ? clamp(num, 0, 90) : 0
ValueOf(num) == IF num.finite THEN clamp(num.n, 0, 900) ELSE 0

\* a sanitizeAngle that draws a fresh identifier for every angle
AlwaysFreshId(a) == FALSE

\* typeof a?.id === "string" && a.id.trim()
HasId(a) == a.id.t = "string" /\ trim(a.id.s) # <<>>

\* a sanitizeAngle without `!holdsSet.has(hold)`
AngleOfAnyHold(a, hold, holdsSet, c) ==
  [ok |-> hold # <<>>,
   angle |-> [id |-> IF HasId(a) THEN a.id.s ELSE cryptoRandomId(c + 1),
              hold |-> hold,
              value |-> ValueOf(ToNum(a.value)),
              saw |-> IF a.saw = JStr(<<"stefan">>) THEN "stefan" ELSE "main",
              drawing |-> IF IsDataImage(a.drawing) THEN a.drawing.s ELSE NoImage],
   ctr |-> IF HasId(a) THEN c ELSE c + 1]

\* the surviving hold that equals `hold` ignoring case, or `hold` itself
SurvivorOf(hold, holdsSet) ==
  IF \E s \in holdsSet : toLowerCase(s) = toLowerCase(hold)
  THEN CHOOSE s \in holdsSet : toLowerCase(s) = toLowerCase(hold)
  ELSE hold

\* a sanitizeAngle that re-points the angle to the hold that survived
AngleOfAnyCase(a, hold, holdsSet, c) ==
  [ok |-> hold # <<>> /\ SurvivorOf(hold, holdsSet) \in holdsSet,
   angle |-> [id |-> IF HasId(a) THEN a.id.s ELSE cryptoRandomId(c + 1),
              hold |-> SurvivorOf(hold, holdsSet),
              value |-> ValueOf(ToNum(a.value)),
              saw |-> IF a.saw = JStr(<<"stefan">>) THEN "stefan" ELSE "main",
              drawing |-> IF IsDataImage(a.drawing) THEN a.drawing.s ELSE NoImage],
   ctr |-> IF HasId(a) THEN c ELSE c + 1]

\* [ok, angle, ctr] for the normalized hold name: ok is FALSE where the code
\* returns null; an identifier is drawn from the supply (c) when a.id is not a
\* non-blank string
AngleOf(a, hold, holdsSet, c) ==
  [ok |-> hold # <<>> /\ hold \in holdsSet,
   angle |-> [id |-> IF HasId(a) THEN a.id.s ELSE cryptoRandomId(c + 1),
              hold |-> hold,
              value |-> ValueOf(ToNum(a.value)),
              saw |-> IF a.saw = JStr(<<"stefan">>) THEN "stefan" ELSE "main",
              drawing |-> IF IsDataImage(a.drawing) THEN a.drawing.s ELSE NoImage],
   ctr |-> IF HasId(a) THEN c ELSE c + 1]

sanitizeAngle(a, holdsSet, c) == AngleOf(a, normalizeHoldNameSafe(a.hold), holdsSet, c)
(* ------------------------------------------------------------------ *)
(* Documents                                                           *)
(* ------------------------------------------------------------------ *)
\* A raw field that may be a list: t is "undefined", "null", "other" or "array".
RawList(t, l) == [t |-> t, l |-> l]
\* A raw field that may be an object: t is "undefined", "other" or "object";
\* m maps the keys it has to raw values.
RawMap(t, m) == [t |-> t, m |-> m]
EmptyMap == [k \in {} |-> Undefined]

Fields(holds, angles, holdImages) ==
  [holds |-> holds, angles |-> angles, holdImages |-> holdImages]
NoFields == Fields(RawList("undefined", <<>>), RawList("undefined", <<>>),
                   RawMap("undefined", EmptyMap))

\* A parsed document: t is "null", "primitive" or "object"; f its own fields;
\* data its `data` member ([t, f], t being "undefined", "primitive" or "object").
Doc(t, f, data) == [t |-> t, f |-> f, data |-> data]
NoData == [t |-> "undefined", f |-> NoFields]
ObjectDoc(f) == Doc("object", f, NoData)
Envelope(f) == Doc("object", NoFields, [t |-> "object", f |-> f])

RawAngle(id, hold, value, saw, drawing) ==
  [id |-> id, hold |-> hold, value |-> value, saw |-> saw, drawing |-> drawing]

\* a snapshot held in memory, read as a document (what saveState and
\* downloadJsonFile hand to migrateAndSanitize)
RawOfAngle(a) ==
  RawAngle(JStr(a.id), JStr(a.hold), JNum(a.value), JStr(<<a.saw>>),
           IF a.drawing = NoImage THEN Undefined ELSE JStr(a.drawing))

RawOfSnapshot(snap) ==
  ObjectDoc(Fields(
    RawList("array", [i \in 1..Len(snap.holds) |-> JStr(snap.holds[i])]),
    RawList("array", [i \in 1..Len(snap.angles) |-> RawOfAngle(snap.angles[i])]),
    RawMap("object", [h \in DOMAIN snap.holdImages |-> JStr(snap.holdImages[h])])))

(* ------------------------------------------------------------------ *)
(* Seed defaults (the first names of DEFAULT_HOLDS and the DEFAULT_ANGLES *)
(* that reference them)                                                *)
(* ------------------------------------------------------------------ *)
Anton == <<"A","n","t","o","n">>
Austin == <<"A","u","s","t","i","n">>
Amon == <<"A","m","o","n">>

DEFAULT_HOLDS == RawList("array", <<JStr(Anton), JStr(Austin), JStr(Amon)>>)

SeedId(k) == <<"uuid", "seed", ToString(k)>>

DEFAULT_ANGLES ==
  << RawAngle(JStr(SeedId(1)), JStr(Austin), JNum(282), JStr(<<"main">>), Undefined),
     RawAngle(JStr(SeedId(3)), JStr(Austin), JNum(653), JStr(<<"main">>), Undefined),
     RawAngle(JStr(SeedId(5)), JStr(Amon), JNum(500), JStr(<<"stefan">>), Undefined) >>

(* ------------------------------------------------------------------ *)
(* migrateAndSanitize                                                  *)
(* ------------------------------------------------------------------ *)
\* The fields that `unwrapped?.x` reads
unwrapImportedDb(parsed) ==
  IF parsed.t # "object" THEN NoFields
  ELSE IF parsed.data.t = "object" THEN parsed.data.f
  ELSE parsed.f

\* a loop that never looks at `ids`
ReidentifiedNever(r, ids) == r

\* if (ids.has(sa.id)) sa.id = cryptoRandomId(): r is sanitizeAngle's result
Reidentified(r, ids) ==
  IF r.angle.id \in ids
  THEN [r EXCEPT !.angle.id = cryptoRandomId(r.ctr + 1), !.ctr = r.ctr + 1]
  ELSE r

\* the loop over anglesRaw; yields [angles, ctr]
RECURSIVE SanitizeAngles(_, _, _, _, _)
RECURSIVE PushAngle(_, _, _, _, _)
PushAngle(rest, holdsSet, angles, ids, r) ==
  IF ~r.ok THEN SanitizeAngles(rest, holdsSet, angles, ids, r.ctr)
  ELSE SanitizeAngles(rest, holdsSet, Append(angles, r.angle), ids \cup {r.angle.id}, r.ctr)

SanitizeAngles(anglesRaw, holdsSet, angles, ids, c) ==
  IF anglesRaw = <<>> THEN [angles |-> angles, ctr |-> c]
  ELSE PushAngle(Tail(anglesRaw), holdsSet, angles, ids,
                 Reidentified(sanitizeAngle(Head(anglesRaw), holdsSet, c), ids))

\* the loop over holds that fills holdImages from rawHoldImages (m)
KeptImages(m, holds) ==
  [h \in {k \in Range(holds) : k \in DOMAIN m /\ IsDataImage(m[k])} |-> m[h].s]

SanitizeHoldImages(raw, holds) ==
  KeptImages(IF raw.t = "object" THEN raw.m ELSE EmptyMap, holds)

Snapshot(holds, angles, holdImages) ==
  [version |-> LS_VERSION, holds |-> holds, angles |-> angles, holdImages |-> holdImages]

\* return { version: LS_VERSION, holds, angles, holdImages }, with the supply
Migrated(holds, res, holdImages) ==
  [snap |-> Snapshot(holds, res.angles, holdImages), ctr |-> res.ctr]

\* the body of migrateAndSanitize once `holds` is known
MigrateWithHolds(unwrapped, holds, c) ==
  Migrated(holds,
           SanitizeAngles(IF unwrapped.angles.t = "array" THEN unwrapped.angles.l
                          ELSE DEFAULT_ANGLES,
                          Range(holds), <<>>, {}, c),
           SanitizeHoldImages(unwrapped.holdImages, holds))

\* unwrapped?.holds ?? DEFAULT_HOLDS
HoldsOrDefault(unwrapped) ==
  IF unwrapped.holds.t \in {"undefined", "null"} THEN DEFAULT_HOLDS ELSE unwrapped.holds

MigrateUnwrapped(unwrapped, c) ==
  MigrateWithHolds(unwrapped, sanitizeHoldList(HoldsOrDefault(unwrapped)), c)

\* [snap, ctr]: the snapshot returned and the identifier supply after it
migrateAndSanitize(parsed, c) == MigrateUnwrapped(unwrapImportedDb(parsed), c)
(* ------------------------------------------------------------------ *)
(* Quota guard                                                         *)
(* ------------------------------------------------------------------ *)
\* Serialized size of an image reference, in KB, by its body chunk
ImageKB(img) ==
  IF img = NoImage THEN 0
  ELSE CASE img[Len(img)] = "jpeg5MiB" -> 5 * 1024
         [] img[Len(img)] = "jpeg" -> 100
         [] OTHER -> 1

RECURSIVE SumKB(_)
SumKB(imgs) == IF imgs = <<>> THEN 0 ELSE ImageKB(Head(imgs)) + SumKB(Tail(imgs))

RECURSIVE SeqOfSet(_)
SeqOfSet(S) ==
  IF S = {} THEN <<>> ELSE LET x == CHOOSE x \in S : TRUE IN <<x>> \o SeqOfSet(S \ {x})

CoverList(holdImages, ks) == [i \in 1..Len(ks) |-> holdImages[ks[i]]]

\* new Blob([JSON.stringify(snap)]).size / 1024: the images dominate, the
\* rest of a snapshot counts 1 KB
sizeKB(snap) ==
  1 + SumKB([i \in 1..Len(snap.angles) |-> snap.angles[i].drawing])
    + SumKB(CoverList(snap.holdImages, SeqOfSet(DOMAIN snap.holdImages)))

\* [throws, size, max]: throws where the code raises its Error, whose message
\* is built from size and max
CapacityVerdict(size, max) == [throws |-> size > max, size |-> size, max |-> max]
checkStorageCapacity(testData) == CapacityVerdict(sizeKB(testData), 4 * 1024)

(* ------------------------------------------------------------------ *)
(* State                                                               *)
(* ------------------------------------------------------------------ *)
VARIABLES
  mdoc,            \* the document handed to migrateAndSanitize
  mout,            \* [snap, ctr] it returned
  magain,          \* [snap, ctr] of migrating mout.snap again
  mpc,             \* "idle", "input", "migrated" or "remigrated"
  wiring,          \* which scheduler saves `data`: "useDebounce" (App.jsx) or
                   \* "useDebouncedStorage" (hooks/useDebouncedStorage.js)
  files,           \* the JSON files the admin can pick for an import
  maxEdits,        \* setData calls a run may make
  page,            \* "open", "unloading" (beforeunload was dispatched) or "unloaded"
  now,             \* Date.now(), in ms since the page was opened
  data,            \* App: the useState snapshot
  dataVer,         \* how many times setData has replaced `data`
  ctr,             \* identifiers drawn from cryptoRandomId so far
  lsData,          \* localStorage[LS_KEY]: [t, doc]
  lsLastModified,  \* localStorage[LS_LAST_MODIFIED_KEY]: [set, ms]
  lsBackups,       \* localStorage[LS_BACKUPS_KEY]: [t, isArray, l]
  timer,           \* the timeout the scheduler holds a handle to (timerRef.current,
                   \* the effect's `t`): [armed, due, ver, v]
  timeouts,        \* the timeouts pending in the browser
  debounced,       \* useDebounce: the debounced value [ver, v]
  pendingRef,      \* useDebouncedStorage: pendingRef.current [set, ver, v]
  uploads,         \* compressImageFile promises not yet settled
  importing,       \* handleImportDb calls awaiting readJsonFile
  lastMutAt,       \* history: when `data` was last replaced
  wlog,            \* history: saveState calls since `data` was last replaced
  written,         \* history: versions of `data` durably written, in order
  pushes,          \* history: number of pushBackup calls
  pushed,          \* history: entries pushBackup stored, newest first
  accepted,        \* history: number of imports that replaced `data`
  failed           \* history: an import has ended in the handler's catch block
                   \* since `data` was last replaced

mvars == <<mdoc, mout, magain, mpc>>
setup == <<wiring, files, maxEdits>>
sched == <<timer, debounced, pendingRef, timeouts>>
ring == <<lsBackups, pushes, pushed, accepted>>
promises == <<uploads, importing>>
avars == <<setup, page, now, data, dataVer, ctr, lsData, lsLastModified, lsBackups,
           timer, debounced, pendingRef, timeouts, uploads, importing,
           lastMutAt, wlog, written, pushes, pushed, accepted, failed>>
vars == <<mvars, avars>>

(* ------------------------------------------------------------------ *)
(* Bounds                                                              *)
(* ------------------------------------------------------------------ *)
MaxHoldList == 3     \* longest raw hold list drawn
MaxAngleList == 2    \* longest raw angle list drawn
MaxEdits == 2        \* setData calls in a run of the admin handlers
MaxSchedEdits == 2   \* setData calls in a run of the write scheduler
MaxImports == 7      \* imports in a run of the backup ring
MaxPending == 1      \* promises in flight
MaxTime == 1000      \* ms of a run
MaxOver == 15        \* how far, in tenths, raw values go beyond 0 and 90

(* ------------------------------------------------------------------ *)
(* Durable storage                                                     *)
(* ------------------------------------------------------------------ *)
\* A stored record: t is "missing", "corrupt" (no JSON) or "json"; doc is what
\* JSON.parse reads from it; version is its `version` member, 0 standing for
\* none (migrateAndSanitize never reads it).
Missing == [t |-> "missing", doc |-> Doc("null", NoFields, NoData), version |-> 0]
Corrupt == [t |-> "corrupt", doc |-> Doc("null", NoFields, NoData), version |-> 0]
Json(doc) == [t |-> "json", doc |-> doc, version |-> 0]
\* JSON.stringify(snap), as JSON.parse reads it back
Stringify(snap) == [t |-> "json", doc |-> RawOfSnapshot(snap), version |-> snap.version]

SeedDoc == ObjectDoc(Fields(DEFAULT_HOLDS, RawList("array", DEFAULT_ANGLES),
                            RawMap("object", EmptyMap)))

Stamp(ms) == [set |-> TRUE, ms |-> ms]
NoStamp == [set |-> FALSE, ms |-> 0]

\* loadState: [data, ctr, lsData, lsLastModified] from what storage holds.
\* st is "ok", "readThrows" (getItem throws), "writeThrows" (every setItem
\* throws) or "firstWriteThrows" (the setItem of the try block throws, those
\* of the catch block do not): every exception lands in the catch block, which
\* returns the seed fallback and stores it when its own setItem does not throw.
Loaded(r, stored, stamp) ==
  [data |-> r.snap, ctr |-> r.ctr, lsData |-> stored, lsLastModified |-> stamp]
LoadedAndStored(r, stamp) == Loaded(r, Stringify(r.snap), stamp)

loadState(stored, stamp, st, t) ==
  IF st = "firstWriteThrows"
  THEN LoadedAndStored(migrateAndSanitize(SeedDoc, 0), Stamp(t))
  ELSE IF st # "ok"
  THEN Loaded(migrateAndSanitize(SeedDoc, 0), stored, stamp)
  ELSE IF stored.t \in {"missing", "corrupt"}
  THEN LoadedAndStored(migrateAndSanitize(SeedDoc, 0), Stamp(t))
  ELSE LoadedAndStored(migrateAndSanitize(stored.doc, 0), IF stamp.set THEN stamp ELSE Stamp(t))

\* a saveState whose rejected write leaves the record removed
SaveSafeDropsRecord(safe, st, t) ==
  IF st = "ok"
  THEN [lsData |-> Stringify(safe.snap), lsLastModified |-> Stamp(t),
        ctr |-> safe.ctr, ok |-> TRUE, snap |-> safe.snap]
  ELSE [lsData |-> Missing, lsLastModified |-> lsLastModified,
        ctr |-> safe.ctr, ok |-> FALSE, snap |-> safe.snap]

\* saveState(next): [lsData, lsLastModified, ctr, ok, snap]. st is "ok", or
\* "quota" when localStorage.setItem throws.
SaveSafe(safe, st, t) ==
  IF st = "ok"
  THEN [lsData |-> Stringify(safe.snap), lsLastModified |-> Stamp(t),
        ctr |-> safe.ctr, ok |-> TRUE, snap |-> safe.snap]
  ELSE [lsData |-> lsData, lsLastModified |-> lsLastModified,
        ctr |-> safe.ctr, ok |-> FALSE, snap |-> safe.snap]

\* a saveState that stores `next` as it is
saveStateUnsanitized(next, st, t) == SaveSafe([snap |-> next, ctr |-> ctr], st, t)

saveState(next, st, t) == SaveSafe(migrateAndSanitize(RawOfSnapshot(next), ctr), st, t)
(* ------------------------------------------------------------------ *)
(* The write scheduler                                                 *)
(* ------------------------------------------------------------------ *)
NoTimer == [armed |-> FALSE, due |-> 0, ver |-> 0, v |-> Snapshot(<<>>, <<>>, EmptyMap)]
Timer(due, ver, v) == [armed |-> TRUE, due |-> due, ver |-> ver, v |-> v]
NoPending == [set |-> FALSE, ver |-> 0, v |-> Snapshot(<<>>, <<>>, EmptyMap)]
Pending(ver, v) == [set |-> TRUE, ver |-> ver, v |-> v]

WriteEntry(by, ver, r) == [at |-> now, by |-> by, ver |-> ver, ok |-> r.ok, snap |-> r.snap]

\* a scheduler whose setTimeout is given no delay
ScheduleAtOnce(next, ver) ==
  /\ timer' = Timer(now, ver, next)
  /\ timeouts' = (timeouts \ {timer}) \cup {Timer(now, ver, next)}
  /\ pendingRef' = IF wiring = "useDebouncedStorage" THEN Pending(ver, next) ELSE pendingRef

\* a scheduler that leaves a running timeout, and the value it closed over, alone
ScheduleKeepsTimer(next, ver) ==
  /\ timer' = IF timer.armed THEN timer ELSE Timer(now + DELAY, ver, next)
  /\ timeouts' = IF timer.armed THEN timeouts ELSE timeouts \cup {Timer(now + DELAY, ver, next)}
  /\ pendingRef' = IF wiring = "useDebouncedStorage" THEN Pending(ver, next) ELSE pendingRef

\* The effects that run when `data` becomes `next`:
\* a scheduler that starts a timeout without clearing the one it holds
ScheduleWithoutClear(next, ver) ==
  /\ timer' = Timer(now + DELAY, ver, next)
  /\ timeouts' = timeouts \cup {Timer(now + DELAY, ver, next)}
  /\ pendingRef' = IF wiring = "useDebouncedStorage" THEN Pending(ver, next) ELSE pendingRef

\*  useDebounce: clearTimeout(t); t = setTimeout(() => setDebounced(value), delay)
\*  useDebouncedStorage: clearTimeout(timerRef.current); timerRef.current =
\*    setTimeout(...save data..., delay); pendingRef.current = data
Schedule(next, ver) ==
  /\ timer' = Timer(now + DELAY, ver, next)
  /\ timeouts' = (timeouts \ {timer}) \cup {Timer(now + DELAY, ver, next)}
  /\ pendingRef' = IF wiring = "useDebouncedStorage" THEN Pending(ver, next) ELSE pendingRef

\* setData(next) with a new object: the component renders and its effects run
setData(next) ==
  /\ data' = next
  /\ dataVer' = dataVer + 1
  /\ Schedule(next, dataVer + 1)
  /\ lastMutAt' = now
  /\ wlog' = <<>>
  /\ failed' = FALSE
  /\ UNCHANGED <<setup, page, now, debounced>>

\* an incremental edit: setData and nothing else
Edit(next) ==
  /\ setData(next)
  /\ UNCHANGED <<lsData, lsLastModified, written, ring, promises>>

\* one saveState call of the scheduler, by "timer" or "flush"
Saved(by, ver, r) ==
  /\ lsData' = r.lsData
  /\ lsLastModified' = r.lsLastModified
  /\ ctr' = r.ctr
  /\ wlog' = Append(wlog, WriteEntry(by, ver, r))
  /\ written' = IF r.ok THEN Append(written, ver) ELSE written

Save(by, ver, v, st) == Saved(by, ver, saveState(v, st, now))

NotSaved == UNCHANGED <<lsData, lsLastModified, ctr, wlog, written>>

StorageOutcomes == {"ok", "quota"}

\* a timeout callback that leaves pendingRef.current as it is
TimerFireKeepsPending ==
  /\ page # "unloaded"
  /\ timer.armed /\ now = timer.due
  /\ timer' = [timer EXCEPT !.armed = FALSE]
  /\ timeouts' = timeouts \ {timer}
  /\ debounced' = IF wiring = "useDebounce" THEN [ver |-> timer.ver, v |-> timer.v]
                  ELSE debounced
  /\ IF wiring = "useDebounce" /\ timer.ver = debounced.ver
     THEN NotSaved
     ELSE \E st \in StorageOutcomes : Save("timer", timer.ver, timer.v, st)
  /\ UNCHANGED <<mvars, setup, page, now, data, dataVer, pendingRef, ring, promises,
                 lastMutAt, failed>>

\* The timeout callback runs.
\*  App.jsx: setDebounced(value); when that changes debouncedData the effect
\*    saveState(debouncedData) runs.
\*  useDebouncedStorage: saveState(data); onSave(); pendingRef.current = null.
TimerFire ==
  /\ page # "unloaded"
  /\ timer.armed /\ now = timer.due
  /\ timer' = [timer EXCEPT !.armed = FALSE]
  /\ timeouts' = timeouts \ {timer}
  /\ debounced' = IF wiring = "useDebounce" THEN [ver |-> timer.ver, v |-> timer.v]
                  ELSE debounced
  /\ pendingRef' = IF wiring = "useDebounce" THEN pendingRef ELSE NoPending
  /\ IF wiring = "useDebounce" /\ timer.ver = debounced.ver
     THEN NotSaved
     ELSE \E st \in StorageOutcomes : Save("timer", timer.ver, timer.v, st)
  /\ UNCHANGED <<mvars, setup, page, now, data, dataVer, ring, promises, lastMutAt, failed>>

\* useDebouncedStorage's flush(): saveState(pendingRef.current) when it is set
flush ==
  IF pendingRef.set
  THEN /\ \E st \in StorageOutcomes : Save("flush", pendingRef.ver, pendingRef.v, st)
       /\ pendingRef' = NoPending
  ELSE NotSaved /\ UNCHANGED pendingRef

\* beforeunload is dispatched: useDebouncedStorage's listener calls flush();
\* App.jsx registers no listener.
BeforeUnload ==
  /\ page = "open"
  /\ page' = "unloading"
  /\ IF wiring = "useDebouncedStorage" THEN flush ELSE NotSaved /\ UNCHANGED pendingRef
  /\ UNCHANGED <<mvars, setup, now, data, dataVer, timer, timeouts, debounced, ring, promises,
                 lastMutAt, failed>>

\* The document is discarded: timers and promises die with it.
Unload ==
  /\ page = "unloading"
  /\ page' = "unloaded"
  /\ timer' = NoTimer
  /\ timeouts' = {}
  /\ uploads' = {}
  /\ importing' = {}
  /\ UNCHANGED <<mvars, setup, now, data, dataVer, ctr, lsData, lsLastModified,
                 debounced, pendingRef, ring, lastMutAt, wlog, written, failed>>

TickSteps == {300}

DueOr(t) == IF timer.armed /\ timer.due < t THEN timer.due ELSE t

\* Time passes, up to the moment the pending timeout is due.
Tick ==
  /\ page # "unloaded"
  /\ \E d \in TickSteps :
       /\ DueOr(now + d) > now
       /\ DueOr(now + d) <= MaxTime
       /\ now' = DueOr(now + d)
  /\ UNCHANGED <<mvars, setup, page, data, dataVer, ctr, lsData, lsLastModified,
                 sched, ring, promises, lastMutAt, wlog, written, failed>>
(* ------------------------------------------------------------------ *)
(* Admin handlers (AdminPage)                                          *)
(* ------------------------------------------------------------------ *)
CanEdit == page = "open" /\ dataVer < maxEdits

\* delete m[k]
DeleteKey(m, k) == [h \in DOMAIN m \ {k} |-> m[h]]
\* m[k] = v
SetKey(m, k, v) == [h \in DOMAIN m \cup {k} |-> IF h = k THEN v ELSE m[h]]

\* normalizeHoldName of what the admin typed
normalizeHoldName(typed) == CollapseWs(trim(typed))

\* a collision test that compares the names as they are written
CollidesWithExact(name, holds) ==
  \E i \in 1..Len(holds) : holds[i] = name

CollidesWith(name, holds) ==
  \E i \in 1..Len(holds) : toLowerCase(holds[i]) = toLowerCase(name)

\* what the admin may type into a hold-name box
TypedNames == { <<"B">>, <<" ","A","m","o","n","\t">>, <<"a","m","o","n">>, <<" ">> }

addHoldNext(prev, name) ==
  IF CollidesWith(name, prev.holds) THEN prev
  ELSE [prev EXCEPT !.holds = sortHolds(Append(prev.holds, name))]

\* setData((prev) => ...): React keeps the state when the updater returns prev
SetIfChanged(next) == IF next = data THEN UNCHANGED avars ELSE Edit(next) /\ UNCHANGED ctr

addHoldNamed(name) == name # <<>> /\ SetIfChanged(addHoldNext(data, name))

addHold ==
  /\ CanEdit
  /\ \E typed \in TypedNames : addHoldNamed(normalizeHoldName(typed))
  /\ UNCHANGED mvars

\* a removal that forgets the cover image
confirmRemoveHoldKeepsCover(prev, nameToRemove) ==
  [prev EXCEPT
     !.holds = sortHolds(SelectSeq(prev.holds, LAMBDA h : h # nameToRemove)),
     !.angles = SelectSeq(prev.angles, LAMBDA a : a.hold # nameToRemove)]

confirmRemoveHoldNext(prev, nameToRemove) ==
  [prev EXCEPT
     !.holds = sortHolds(SelectSeq(prev.holds, LAMBDA h : h # nameToRemove)),
     !.angles = SelectSeq(prev.angles, LAMBDA a : a.hold # nameToRemove),
     !.holdImages = DeleteKey(prev.holdImages, nameToRemove)]

\* the admin confirms the removal of the selected hold
confirmRemoveHold ==
  /\ CanEdit
  /\ \E nameToRemove \in Range(data.holds) :
       Edit(confirmRemoveHoldNext(data, nameToRemove))
  /\ UNCHANGED <<mvars, ctr>>

\* if (next[oldName]) { next[nextName] = next[oldName]; delete next[oldName]; }
MoveKey(m, oldName, nextName) ==
  IF oldName \in DOMAIN m THEN DeleteKey(SetKey(m, nextName, m[oldName]), oldName) ELSE m

saveRenameHoldNext(prev, oldName, nextName) ==
  [prev EXCEPT
     !.holds = sortHolds([i \in 1..Len(prev.holds) |->
                            IF prev.holds[i] = oldName THEN nextName ELSE prev.holds[i]]),
     !.angles = [i \in 1..Len(prev.angles) |->
                   IF prev.angles[i].hold = oldName
                   THEN [prev.angles[i] EXCEPT !.hold = nextName] ELSE prev.angles[i]],
     !.holdImages = MoveKey(prev.holdImages, oldName, nextName)]

\* the rename is taken unless the name is empty or is another hold's name
RenameAccepted(holdsSafe, oldName, nextName) ==
  /\ nextName # <<>>
  /\ ~ ( /\ toLowerCase(nextName) # toLowerCase(oldName)
          /\ CollidesWith(nextName, holdsSafe) )

saveRenameTo(oldName, nextName) ==
  IF RenameAccepted(data.holds, oldName, nextName)
  THEN Edit(saveRenameHoldNext(data, oldName, nextName)) /\ UNCHANGED ctr
  ELSE UNCHANGED avars

saveRenameHold ==
  /\ CanEdit
  /\ \E oldName \in Range(data.holds), typed \in TypedNames :
       saveRenameTo(oldName, normalizeHoldName(typed))
  /\ UNCHANGED mvars

NewAngle(id, holdName, saw) ==
  [id |-> id, hold |-> holdName, value |-> 0, saw |-> saw, drawing |-> NoImage]

addAngleForHold ==
  /\ CanEdit
  /\ \E holdName \in Range(data.holds), saw \in {"main", "stefan"} :
       Edit([data EXCEPT !.angles = Append(@, NewAngle(cryptoRandomId(ctr + 1), holdName, saw))])
  /\ ctr' = ctr + 1
  /\ UNCHANGED mvars

AngleIds(snap) == {snap.angles[i].id : i \in 1..Len(snap.angles)}

\* patches the angle rows send: a committed value (clamped by the row) or the
\* removal of the drawing
Patches == { [field |-> "value", value |-> 455, drawing |-> NoImage],
             [field |-> "drawing", value |-> 0, drawing |-> NoImage] }
DrawingPatch(img) == [field |-> "drawing", value |-> 0, drawing |-> img]

ApplyPatch(a, patch) ==
  IF patch.field = "value" THEN [a EXCEPT !.value = patch.value]
  ELSE [a EXCEPT !.drawing = patch.drawing]

updateAngleNext(prev, id, patch) ==
  [prev EXCEPT !.angles = [i \in 1..Len(prev.angles) |->
                             IF prev.angles[i].id = id THEN ApplyPatch(prev.angles[i], patch)
                             ELSE prev.angles[i]]]

updateAngle ==
  /\ CanEdit
  /\ \E id \in AngleIds(data), patch \in Patches : Edit(updateAngleNext(data, id, patch))
  /\ UNCHANGED <<mvars, ctr>>

removeAngle ==
  /\ CanEdit
  /\ \E id \in AngleIds(data) :
       Edit([data EXCEPT !.angles = SelectSeq(@, LAMBDA a : a.id # id)])
  /\ UNCHANGED <<mvars, ctr>>

removeHoldCover ==
  /\ CanEdit
  /\ \E holdName \in Range(data.holds) \cap DOMAIN data.holdImages :
       Edit([data EXCEPT !.holdImages = DeleteKey(@, holdName)])
  /\ UNCHANGED <<mvars, ctr>>
(* ------------------------------------------------------------------ *)
(* Image uploads (compressImageFile promises)                          *)
(* ------------------------------------------------------------------ *)
CoverUpload(holdName) == [kind |-> "cover", hold |-> holdName, id |-> <<>>]
DrawingUpload(id) == [kind |-> "drawing", hold |-> <<>>, id |-> id]
\* what compressImageFile resolves to
CompressedImage == <<DATA_IMAGE, "jpeg">>

InFlight == Cardinality(uploads) + Cardinality(importing)

\* a promise may be started while the run has a setData call left for its
\* resolution
CanStart == page = "open" /\ InFlight < MaxPending /\ dataVer + InFlight < maxEdits

\* handleHoldCoverUpload up to compressImageFile(...): the hold is the one that
\* was selected when the file dialog was opened
handleHoldCoverUpload ==
  /\ CanStart
  /\ \E holdName \in Range(data.holds) : uploads' = uploads \cup {CoverUpload(holdName)}
  /\ UNCHANGED <<mvars, setup, page, now, data, dataVer, ctr, lsData, lsLastModified,
                 sched, ring, importing, lastMutAt, wlog, written, failed>>

\* handleDrawingUpload up to compressImageFile(...)
handleDrawingUpload ==
  /\ CanStart
  /\ \E id \in AngleIds(data) : uploads' = uploads \cup {DrawingUpload(id)}
  /\ UNCHANGED <<mvars, setup, page, now, data, dataVer, ctr, lsData, lsLastModified,
                 sched, ring, importing, lastMutAt, wlog, written, failed>>

\* .then((dataUrl) => setData((prev) => ({...prev, holdImages: {..., [holdName]: dataUrl}})))
coverUploadedNext(prev, holdName, dataUrl) ==
  [prev EXCEPT !.holdImages = SetKey(@, holdName, dataUrl)]

\* the .then of a resolved upload
uploadedNext(prev, u, dataUrl) ==
  IF u.kind = "cover" THEN coverUploadedNext(prev, u.hold, dataUrl)
  ELSE updateAngleNext(prev, u.id, DrawingPatch(dataUrl))

\* the promise resolves and its .then runs
uploadResolved ==
  /\ CanEdit
  /\ \E u \in uploads :
       /\ uploads' = uploads \ {u}
       /\ setData(uploadedNext(data, u, CompressedImage))
  /\ UNCHANGED <<mvars, ctr, lsData, lsLastModified, written, ring, importing>>

\* the promise rejects: .catch(() => {})
uploadRejected ==
  /\ page = "open"
  /\ \E u \in uploads : uploads' = uploads \ {u}
  /\ UNCHANGED <<mvars, setup, page, now, data, dataVer, ctr, lsData, lsLastModified,
                 sched, ring, importing, lastMutAt, wlog, written, failed>>

(* ------------------------------------------------------------------ *)
(* Backup ring and import                                              *)
(* ------------------------------------------------------------------ *)
NoBackups == [t |-> "missing", isArray |-> FALSE, l |-> <<>>]
NotARing == [t |-> "json", isArray |-> FALSE, l |-> <<>>]
\* a stored value JSON.parse throws on
CorruptRing == [t |-> "corrupt", isArray |-> FALSE, l |-> <<>>]
Backups(l) == [t |-> "json", isArray |-> TRUE, l |-> l]
BackupEntry(ts, snapshot) == [ts |-> ts, data |-> snapshot]

Take(seq, n) == SubSeq(seq, 1, Min(n, Len(seq)))

\* Array.isArray(arr) ? arr : []
StoredRing(stored) == IF stored.t = "json" /\ stored.isArray THEN stored.l ELSE <<>>

\* a pushBackup that adds the new entry after the stored ones
pushBackupOldestFirst(snapshot, st) ==
  IF lsBackups.t = "corrupt" \/ st # "ok" THEN lsBackups
  ELSE Backups(Take(StoredRing(lsBackups) \o <<BackupEntry(now, snapshot)>>, MAX_BACKUPS))

\* a pushBackup that starts a new ring when the stored one does not parse
pushBackupOverCorrupt(snapshot, st) ==
  IF st # "ok" THEN lsBackups
  ELSE Backups(Take(<<BackupEntry(now, snapshot)>> \o StoredRing(lsBackups), MAX_BACKUPS))

\* pushBackup(snapshot): the new value of localStorage[LS_BACKUPS_KEY]. st is
\* "ok", or "quota" when localStorage throws; an unparsable stored ring makes
\* JSON.parse throw. Either way the catch block leaves the ring as it was.
pushBackup(snapshot, st) ==
  IF lsBackups.t = "corrupt" \/ st # "ok" THEN lsBackups
  ELSE Backups(Take(<<BackupEntry(now, snapshot)>> \o StoredRing(lsBackups), MAX_BACKUPS))

NameB == <<"B">>
ImageOf(body) == <<DATA_IMAGE, body>>

\* files the admin may import, as readJsonFile parses them
ExportedFile ==
  Envelope(Fields(
    RawList("array", <<JStr(NameB), JStr(Amon)>>),
    RawList("array", <<RawAngle(JStr(<<"x">>), JStr(NameB), JNum(455), JStr(<<"main">>),
                                JStr(ImageOf("jpeg")))>>),
    RawMap("object", [h \in {NameB} |-> JStr(ImageOf("jpeg"))])))
OversizeFile ==
  ObjectDoc(Fields(
    RawList("array", <<JStr(NameB)>>),
    RawList("array", <<RawAngle(JStr(<<"y">>), JStr(NameB), JStr(<<"9","9">>),
                                JStr(<<"stefan">>), JStr(ImageOf("jpeg5MiB")))>>),
    RawMap("undefined", EmptyMap)))
NoHoldsFile ==
  ObjectDoc(Fields(RawList("array", <<>>), RawList("array", <<>>), RawMap("object", EmptyMap)))
PrimitiveFile == Doc("primitive", NoFields, NoData)

ImportDocs == {ExportedFile, OversizeFile, NoHoldsFile, PrimitiveFile}

\* handleImportDb up to `await readJsonFile(file)`: the callback closes over
\* the `data` of the render that created it
handleImportDb ==
  /\ CanStart
  /\ files # {}
  /\ importing' = importing \cup {[data |-> data]}
  /\ UNCHANGED <<mvars, setup, page, now, data, dataVer, ctr, lsData, lsLastModified,
                 sched, ring, uploads, lastMutAt, wlog, written, failed>>

\* pushBackup(data) as the handler calls it, with the history of the ring
backupBeforeImport(snapshot) ==
  /\ \E st \in StorageOutcomes :
       /\ lsBackups' = pushBackup(snapshot, st)
       /\ pushed' = IF lsBackups.t = "corrupt" \/ st # "ok" THEN pushed
                    ELSE <<BackupEntry(now, snapshot)>> \o pushed
  /\ pushes' = pushes + 1

\* touchLastModified(): the write is dropped when localStorage throws
touchLastModified ==
  \E st \in StorageOutcomes :
    lsLastModified' = IF st = "ok" THEN Stamp(now) ELSE lsLastModified

\* a handleImportDb that backs up before it looks at the imported holds
importSafeBackupFirst(call, safe) ==
  /\ importing' = importing \ {call}
  /\ ctr' = safe.ctr
  /\ backupBeforeImport(call.data)
  /\ IF Len(safe.snap.holds) = 0
     THEN UNCHANGED <<setup, page, now, data, dataVer, lsData, lsLastModified, sched,
                      accepted, uploads, lastMutAt, wlog, written, failed>>
     ELSE /\ setData(safe.snap)
          /\ accepted' = accepted + 1
          /\ touchLastModified
          /\ UNCHANGED <<lsData, written, uploads>>

\* a handleImportDb whose pushBackup lets the storage error escape into the
\* handler's catch block
importSafeBackupFatal(call, safe) ==
  /\ importing' = importing \ {call}
  /\ ctr' = safe.ctr
  /\ IF Len(safe.snap.holds) = 0
     THEN UNCHANGED <<setup, page, now, data, dataVer, lsData, lsLastModified, sched, ring,
                      uploads, lastMutAt, wlog, written, failed>>
     ELSE /\ backupBeforeImport(call.data)
          /\ IF pushed' = pushed
             THEN /\ failed' = TRUE
                  /\ UNCHANGED <<setup, page, now, data, dataVer, lsData, lsLastModified,
                                 sched, accepted, uploads, lastMutAt, wlog, written>>
             ELSE /\ setData(safe.snap)
                  /\ accepted' = accepted + 1
                  /\ touchLastModified
                  /\ UNCHANGED <<lsData, written, uploads>>

\* handleImportDb after the await, `safe` being migrateAndSanitize(parsed)
importSafe(call, safe) ==
  /\ importing' = importing \ {call}
  /\ ctr' = safe.ctr
  /\ IF Len(safe.snap.holds) = 0
     THEN UNCHANGED <<setup, page, now, data, dataVer, lsData, lsLastModified, sched, ring,
                      uploads, lastMutAt, wlog, written, failed>>
     ELSE /\ backupBeforeImport(call.data)
          /\ setData(safe.snap)
          /\ accepted' = accepted + 1
          /\ touchLastModified
          /\ UNCHANGED <<lsData, written, uploads>>

importParsed(call, parsed) == importSafe(call, migrateAndSanitize(parsed, ctr))

\* readJsonFile resolves
importResolved ==
  /\ CanEdit
  /\ \E call \in importing, parsed \in files : importParsed(call, parsed)
  /\ UNCHANGED mvars

\* a handler that calls pushBackup(data) before it reads the file
importRejectedAfterBackup ==
  /\ page = "open"
  /\ \E call \in importing :
       /\ importing' = importing \ {call}
       /\ backupBeforeImport(call.data)
  /\ failed' = TRUE
  /\ UNCHANGED <<mvars, setup, page, now, data, dataVer, ctr, lsData, lsLastModified,
                 sched, accepted, uploads, lastMutAt, wlog, written>>

\* readJsonFile rejects (unreadable file or invalid JSON): the catch block alerts
importRejected ==
  /\ page = "open"
  /\ \E call \in importing : importing' = importing \ {call}
  /\ failed' = TRUE
  /\ UNCHANGED <<mvars, setup, page, now, data, dataVer, ctr, lsData, lsLastModified,
                 sched, ring, uploads, lastMutAt, wlog, written>>
(* ------------------------------------------------------------------ *)
(* Start of the page                                                   *)
(* ------------------------------------------------------------------ *)
Wirings == {"useDebounce", "useDebouncedStorage"}

\* App mounts: useState(() => loadState()), then the effects of the first
\* render. App.jsx's effect saves the debounced value at once; both schedulers
\* start their first timeout.
MountedWith(w, ld, backups) ==
  /\ wiring = w
  /\ page = "open"
  /\ now = 0
  /\ data = ld.data
  /\ dataVer = 0
  /\ ctr = ld.ctr
  /\ lsData = ld.lsData
  /\ lsLastModified = IF w = "useDebounce" THEN Stamp(0) ELSE ld.lsLastModified
  /\ lsBackups = backups
  /\ timer = Timer(DELAY, 0, data)
  /\ timeouts = {timer}
  /\ debounced = [ver |-> 0, v |-> data]
  /\ pendingRef = IF w = "useDebouncedStorage" THEN Pending(0, data) ELSE NoPending
  /\ uploads = {}
  /\ importing = {}
  /\ lastMutAt = 0
  /\ wlog = <<>>
  /\ written = <<0>>
  /\ pushes = 0
  /\ pushed = <<>>
  /\ accepted = 0
  /\ failed = FALSE

Mounted(w, stored, stamp, backups) ==
  MountedWith(w, loadState(stored, stamp, "ok", 0), backups)

\* what a run may do: the files at hand and the number of setData calls
Run(fs, n) == files = fs /\ maxEdits = n

NoResult == [snap |-> Snapshot(<<>>, <<>>, EmptyMap), ctr |-> 0]

MigrateIdle ==
  /\ mdoc = Doc("null", NoFields, NoData)
  /\ mout = NoResult
  /\ magain = NoResult
  /\ mpc = "idle"

(* ------------------------------------------------------------------ *)
(* Spec: the admin handlers, interleaved with their promises           *)
(* ------------------------------------------------------------------ *)
Init ==
  /\ MigrateIdle
  /\ Run(ImportDocs, MaxEdits)
  /\ Mounted("useDebounce", Missing, NoStamp, NoBackups)

Next ==
  \/ addHold
  \/ confirmRemoveHold
  \/ saveRenameHold
  \/ addAngleForHold
  \/ updateAngle
  \/ removeAngle
  \/ removeHoldCover
  \/ handleHoldCoverUpload
  \/ handleDrawingUpload
  \/ uploadResolved
  \/ uploadRejected
  \/ handleImportDb
  \/ importResolved
  \/ importRejected

Spec == Init /\ [][Next]_vars

(* ------------------------------------------------------------------ *)
(* SpecHolds: holds are removed while covers are uploaded and files    *)
(* imported                                                            *)
(* ------------------------------------------------------------------ *)
InitHolds ==
  /\ MigrateIdle
  /\ Run({ExportedFile}, MaxEdits)
  /\ Mounted("useDebounce", Missing, NoStamp, NoBackups)

NextHolds ==
  \/ confirmRemoveHold
  \/ addAngleForHold
  \/ handleHoldCoverUpload
  \/ uploadResolved
  \/ handleImportDb
  \/ importResolved

SpecHolds == InitHolds /\ [][NextHolds]_vars

(* ------------------------------------------------------------------ *)
(* SpecNames: holds are added, renamed and removed, and files imported *)
(* ------------------------------------------------------------------ *)
NextNames ==
  \/ addHold
  \/ saveRenameHold
  \/ confirmRemoveHold
  \/ handleImportDb
  \/ importResolved

SpecNames == InitHolds /\ [][NextNames]_vars

(* ------------------------------------------------------------------ *)
(* SpecSched: mutations, the clock, the timeout and page teardown      *)
(* ------------------------------------------------------------------ *)
InitSched ==
  /\ MigrateIdle
  /\ Run({OversizeFile}, MaxSchedEdits)
  /\ \E w \in Wirings : Mounted(w, Missing, NoStamp, NoBackups)

NextSched ==
  \/ removeAngle
  \/ handleImportDb
  \/ importResolved
  \/ importRejected
  \/ Tick
  \/ TimerFire
  \/ BeforeUnload
  \/ Unload

SpecSched == InitSched /\ [][NextSched]_vars

(* ------------------------------------------------------------------ *)
(* SpecFair: SpecSched's mutations, clock and teardown, where time     *)
(* passes and a due timeout callback is run                            *)
(* ------------------------------------------------------------------ *)
\* a mutation early enough for its timeout to fall within the modelled time
EarlyEdit == now + DELAY <= MaxTime /\ removeAngle

NextFair ==
  \/ EarlyEdit
  \/ Tick
  \/ TimerFire
  \/ BeforeUnload
  \/ Unload

\* the step that disarms the due timeout: among NextFair's steps, TimerFire
TimeoutRuns ==
  /\ page # "unloaded"
  /\ timer.armed /\ now = timer.due
  /\ timer' = [timer EXCEPT !.armed = FALSE]

\* the clock goes on, and the browser runs the callback of a due timeout
SpecFair == InitSched /\ [][NextFair]_vars /\ WF_vars(Tick) /\ WF_timer(TimeoutRuns)

(* ------------------------------------------------------------------ *)
(* SpecBackup: a series of imports                                     *)
(* ------------------------------------------------------------------ *)
InitBackup ==
  /\ MigrateIdle
  /\ Run({ExportedFile, OversizeFile}, MaxImports)
  /\ \E b \in {NoBackups, NotARing, CorruptRing} : Mounted("useDebounce", Missing, NoStamp, b)

NextBackup ==
  \/ handleImportDb
  \/ importResolved
  \/ importRejected

SpecBackup == InitBackup /\ [][NextBackup]_vars

(* ------------------------------------------------------------------ *)
(* SpecMigrate: migrateAndSanitize on a document, then on its result   *)
(* ------------------------------------------------------------------ *)
SeqsUpTo(S, n) == UNION {[1..k -> S] : k \in 0..n}

NameA == <<"A">>
NameZ == <<"Z">>
RawNames == {JStr(NameB), JStr(<<"a">>), JStr(<<" ","A","\t">>), JNull}

RawAngles ==
  { RawAngle(JStr(<<"x">>), JStr(NameB), JNum(455), JStr(<<"main">>), JStr(ImageOf("jpeg"))),
    RawAngle(JStr(<<"x">>), JStr(<<" ","a"," ">>), JStr(<<"9","9",",","5">>),
             JStr(<<"stefan">>), JStr(<<"http://", "png">>)),
    RawAngle(Undefined, JStr(NameA), JStr(<<"4","a">>), Undefined, Undefined),
    RawAngle(JStr(<<" ">>), JStr(NameZ), JNum(-10), JNull, JNull) }

RawImageMaps ==
  { RawMap("undefined", EmptyMap),
    RawMap("object", [h \in {NameB, NameA, NameZ} |->
                        IF h = NameA THEN JNum(1) ELSE JStr(ImageOf("jpeg"))]) }

\* documents as JSON.parse may return them: bare snapshots, export envelopes,
\* near-misses whose fields have the wrong shape, and values that are no object
MigrateDocs ==
  { ObjectDoc(Fields(RawList("array", hs), RawList("array", as), im)) :
      hs \in SeqsUpTo(RawNames, MaxHoldList), as \in SeqsUpTo(RawAngles, MaxAngleList),
      im \in RawImageMaps }
  \cup { Envelope(Fields(RawList(ht, <<>>), RawList(at, <<>>), RawMap(it, EmptyMap))) :
           ht \in {"undefined", "null", "other", "array"},
           at \in {"undefined", "null", "other", "array"},
           it \in {"undefined", "other", "object"} }
  \cup { Doc("null", NoFields, NoData), Doc("primitive", NoFields, NoData) }

InitMigrate ==
  /\ mdoc \in MigrateDocs
  /\ mout = NoResult
  /\ magain = NoResult
  /\ mpc = "input"
  /\ Run({}, 0)
  /\ Mounted("useDebounce", Missing, NoStamp, NoBackups)

\* y = migrateAndSanitize(x)
Migrate ==
  /\ mpc = "input"
  /\ mout' = migrateAndSanitize(mdoc, 0)
  /\ mpc' = "migrated"
  /\ UNCHANGED <<mdoc, magain, avars>>

\* migrateAndSanitize(y), the identifier supply running on
Remigrate ==
  /\ mpc = "migrated"
  /\ magain' = migrateAndSanitize(RawOfSnapshot(mout.snap), mout.ctr)
  /\ mpc' = "remigrated"
  /\ UNCHANGED <<mdoc, mout, avars>>

NextMigrate == Migrate \/ Remigrate

SpecMigrate == InitMigrate /\ [][NextMigrate]_vars

(* ------------------------------------------------------------------ *)
(* SpecLoad: the page is opened on what an earlier session left stored  *)
(* ------------------------------------------------------------------ *)
\* how storage behaves during loadState
LoadOutcomes == {"ok", "readThrows", "writeThrows", "firstWriteThrows"}

\* saveState(debouncedData) of the first render, `safe` being its
\* migrateAndSanitize: [lsData, lsLastModified, ctr, ok]
FirstSave(ld, safe, st, t) ==
  IF wiring = "useDebounce" /\ st = "ok"
  THEN [lsData |-> Stringify(safe.snap), lsLastModified |-> Stamp(t), ctr |-> safe.ctr,
        ok |-> TRUE]
  ELSE [lsData |-> ld.lsData, lsLastModified |-> ld.lsLastModified,
        ctr |-> IF wiring = "useDebounce" THEN safe.ctr ELSE ld.ctr,
        ok |-> ld.lsData = Stringify(ld.data)]

\* the component state and the effects of the first render, ld being what
\* loadState returned and left in storage, fs what the effects left there
OpenedWith(ld, fs) ==
  /\ page' = "open"
  /\ data' = ld.data
  /\ dataVer' = 0
  /\ ctr' = fs.ctr
  /\ lsData' = fs.lsData
  /\ lsLastModified' = fs.lsLastModified
  /\ timer' = Timer(now + DELAY, 0, ld.data)
  /\ timeouts' = {Timer(now + DELAY, 0, ld.data)}
  /\ debounced' = [ver |-> 0, v |-> ld.data]
  /\ pendingRef' = IF wiring = "useDebouncedStorage" THEN Pending(0, ld.data) ELSE NoPending
  /\ uploads' = {}
  /\ importing' = {}
  /\ lastMutAt' = now
  /\ wlog' = <<>>
  /\ written' = IF fs.ok THEN <<0>> ELSE <<>>
  /\ failed' = FALSE

Opened(ld, st) ==
  OpenedWith(ld, FirstSave(ld, migrateAndSanitize(RawOfSnapshot(ld.data), ld.ctr), st, now))

\* App mounts on a closed page: useState(() => loadState()) and the effects
\* of the first render
Load ==
  /\ page = "unloaded"
  /\ \E ldst \in LoadOutcomes, st \in StorageOutcomes :
       Opened(loadState(lsData, lsLastModified, ldst, now), st)
  /\ UNCHANGED <<mvars, setup, now, ring>>

\* a closed page
Closed(w, stored, stamp, backups) ==
  /\ wiring = w
  /\ page = "unloaded"
  /\ now = 0
  /\ data = Snapshot(<<>>, <<>>, EmptyMap)
  /\ dataVer = 0
  /\ ctr = 0
  /\ lsData = stored
  /\ lsLastModified = stamp
  /\ lsBackups = backups
  /\ timer = NoTimer
  /\ timeouts = {}
  /\ debounced = [ver |-> 0, v |-> data]
  /\ pendingRef = NoPending
  /\ uploads = {}
  /\ importing = {}
  /\ lastMutAt = 0
  /\ wlog = <<>>
  /\ written = <<>>
  /\ pushes = 0
  /\ pushed = <<>>
  /\ accepted = 0
  /\ failed = FALSE

\* what the record may hold: nothing, text that is no JSON, or any JSON value
StoredDocs ==
  { ObjectDoc(Fields(RawList("array", hs), RawList("array", as), im)) :
      hs \in SeqsUpTo(RawNames, 1), as \in SeqsUpTo(RawAngles, MaxAngleList),
      im \in RawImageMaps }
  \cup { Envelope(Fields(RawList(ht, <<>>), RawList(at, <<>>), RawMap(it, EmptyMap))) :
           ht \in {"undefined", "null", "other", "array"},
           at \in {"undefined", "null", "other", "array"},
           it \in {"undefined", "other", "object"} }
  \cup { Doc("null", NoFields, NoData), Doc("primitive", NoFields, NoData) }

StoredRecords == {Missing, Corrupt} \cup {Json(d) : d \in StoredDocs}

InitLoad ==
  /\ MigrateIdle
  /\ Run({}, 0)
  /\ \E w \in Wirings, stored \in StoredRecords, stamp \in {NoStamp, Stamp(0)} :
       Closed(w, stored, stamp, NoBackups)

NextLoad == Load

SpecLoad == InitLoad /\ [][NextLoad]_vars

(* ------------------------------------------------------------------ *)
(* SpecWrite: the page is opened, holds and covers are edited and the   *)
(* scheduler saves                                                      *)
(* ------------------------------------------------------------------ *)
\* a record no migrateAndSanitize has seen: two spellings of one hold, an
\* angle on a hold it does not list, values out of range, a cover for no hold
DirtyDoc ==
  ObjectDoc(Fields(
    RawList("array", <<JStr(<<"a">>), JStr(<<" ","A","\t">>), JStr(NameB)>>),
    RawList("array", <<RawAngle(JStr(<<"x">>), JStr(NameB), JNum(999), JStr(<<"side">>),
                                JStr(<<"http://", "png">>)),
                       RawAngle(JStr(<<"x">>), JStr(NameZ), JNum(-10), JNull, JNull)>>),
    RawMap("object", [h \in {NameB, NameZ} |-> JStr(ImageOf("jpeg"))])))

InitWrite ==
  /\ MigrateIdle
  /\ Run({}, MaxEdits)
  /\ \E w \in Wirings, stored \in {Missing, Corrupt, Json(DirtyDoc)} :
       Closed(w, stored, NoStamp, NoBackups)

NextWrite ==
  \/ Load
  \/ handleHoldCoverUpload
  \/ uploadResolved
  \/ confirmRemoveHold
  \/ Tick
  \/ TimerFire

SpecWrite == InitWrite /\ [][NextWrite]_vars

(* ------------------------------------------------------------------ *)
(* SpecValue: migrateAndSanitize on a document with one angle, whose   *)
(* value is a number or a string                                       *)
(* ------------------------------------------------------------------ *)
\* the numbers written, in tenths: around 0, around 90 and one in between
Tenths == ((0 - MaxOver)..MaxOver) \cup ((900 - MaxOver)..(900 + MaxOver)) \cup {455}

RECURSIVE DigitsOf(_)
DigitsOf(k) ==
  IF k < 10 THEN <<Digits[k + 1]>> ELSE Append(DigitsOf(k \div 10), Digits[(k % 10) + 1])

\* n tenths written as a decimal with one decimal place
Written(k, neg, sep) ==
  (IF neg THEN <<"-">> ELSE <<>>) \o DigitsOf(k \div 10) \o <<sep, Digits[(k % 10) + 1]>>

Decimal(n, sep) == Written(IF n < 0 THEN 0 - n ELSE n, n < 0, sep)

Renderings == {"number", "dot", "comma", "padded"}

\* the raw value a document carries for n tenths
Rendered(n, r) ==
  CASE r = "number" -> JNum(n)
    [] r = "dot" -> JStr(Decimal(n, "."))
    [] r = "comma" -> JStr(Decimal(n, ","))
    [] r = "padded" -> JStr(<<" ">> \o Decimal(n, ".") \o <<"\t">>)

\* raw values that are no number: absent, null, an object, a number that is
\* not finite, and strings that do not spell one number
NotNumeric ==
  { Undefined, JNull, JOther, JInfinity, JStr(<<>>), JStr(<<" ">>),
    JStr(<<"a","b","c">>), JStr(<<"4","a">>), JStr(<<"4",",","5",",","5">>),
    JStr(<<"I","n","f","i","n","i","t","y">>), JStr(<<"-">>), JStr(<<".">>) }

ValueDoc(v) ==
  ObjectDoc(Fields(RawList("array", <<JStr(NameB)>>),
                   RawList("array", <<RawAngle(JStr(<<"x">>), JStr(NameB), v,
                                               JStr(<<"main">>), Undefined)>>),
                   RawMap("undefined", EmptyMap)))

InitValue ==
  /\ \/ \E n \in Tenths, r \in Renderings : mdoc = ValueDoc(Rendered(n, r))
     \/ \E v \in NotNumeric : mdoc = ValueDoc(v)
  /\ mout = NoResult
  /\ magain = NoResult
  /\ mpc = "input"
  /\ Run({}, 0)
  /\ Mounted("useDebounce", Missing, NoStamp, NoBackups)

SpecValue == InitValue /\ [][NextMigrate]_vars

(* ------------------------------------------------------------------ *)
(* SpecCase: migrateAndSanitize on documents whose holds, angles and   *)
(* cover images spell one name in two cases                            *)
(* ------------------------------------------------------------------ *)
NameLowerA == <<"a">>

CaseNames == {JStr(NameLowerA), JStr(<<" ","A","\t">>), JStr(NameB)}

CaseAngles ==
  { RawAngle(JStr(<<"p">>), JStr(NameA), JNum(100), JStr(<<"main">>), Undefined),
    RawAngle(JStr(<<"q">>), JStr(<<" ","a"," ">>), JNum(200), JStr(<<"main">>), Undefined) }

CaseImageMaps ==
  { RawMap("object", [h \in {NameLowerA} |-> JStr(ImageOf("lower"))]),
    RawMap("object", [h \in {NameLowerA, NameA} |->
                        IF h = NameA THEN JStr(ImageOf("upper")) ELSE JStr(ImageOf("lower"))]) }

CaseDocs ==
  { ObjectDoc(Fields(RawList("array", hs), RawList("array", as), im)) :
      hs \in SeqsUpTo(CaseNames, MaxHoldList), as \in SeqsUpTo(CaseAngles, MaxAngleList),
      im \in CaseImageMaps }

InitCase ==
  /\ mdoc \in CaseDocs
  /\ mout = NoResult
  /\ magain = NoResult
  /\ mpc = "input"
  /\ Run({}, 0)
  /\ Mounted("useDebounce", Missing, NoStamp, NoBackups)

SpecCase == InitCase /\ [][NextMigrate]_vars

(* ------------------------------------------------------------------ *)
(* Properties                                                          *)
(* ------------------------------------------------------------------ *)
\* every angle's hold and every cover key is one of the snapshot's holds
WellFormed(snap) ==
  /\ \A i \in 1..Len(snap.angles) : snap.angles[i].hold \in Range(snap.holds)
  /\ DOMAIN snap.holdImages \subseteq Range(snap.holds)

\* migrateAndSanitize(snap) of a snapshot held in memory
Sanitized(snap) == migrateAndSanitize(RawOfSnapshot(snap), ctr).snap

\* C1: for every input document the snapshot migrateAndSanitize returns has
\* every angle's hold in its holds list and every holdImages key in its holds
\* list.
C1_ReferentialIntegrity ==
  mpc \in {"migrated", "remigrated"} => WellFormed(mout.snap)

\* a document with an angle on a hold it does not list and a cover for one,
\* migrated to a snapshot that keeps an angle and a cover
C1_DanglingInputMigrated ==
  /\ mpc = "migrated"
  /\ mdoc.t = "object"
  /\ \E i \in 1..Len(mdoc.f.angles.l) : mdoc.f.angles.l[i].hold = JStr(NameZ)
  /\ NameZ \in DOMAIN mdoc.f.holdImages.m
  /\ mout.snap.angles # <<>>
  /\ DOMAIN mout.snap.holdImages # {}

\* C2: in every reachable state every in-memory angle references a hold of
\* the in-memory hold list and every in-memory cover-image key is in the
\* in-memory hold list.
C2_InMemoryWellFormed == WellFormed(data)

\* C3: migrateAndSanitize applied to the snapshot y it returned for x returns
\* a snapshot equal to y: same version, holds, angles and cover images.
C3_Idempotent ==
  mpc = "remigrated" => magain.snap = mout.snap

\* a second migration of a snapshot for which identifiers had to be drawn,
\* with several holds and a cover
C3_RemigratedAfterFreshIds ==
  /\ mpc = "remigrated"
  /\ mout.ctr >= 2
  /\ Len(mout.snap.holds) >= 2
  /\ Len(mout.snap.angles) >= 2
  /\ DOMAIN mout.snap.holdImages # {}

\* C4: on an open page, while mutations follow one another by less than
\* DELAY nothing is saved; one saveState call is made DELAY after the last
\* mutation, with the snapshot of that mutation, which a successful write
\* leaves in storage; no snapshot in between is saved.
C4_Coalescing ==
  (page = "open" /\ dataVer > 0) =>
    /\ Len(wlog) <= 1
    /\ \A i \in DOMAIN wlog :
         /\ wlog[i].by = "timer"
         /\ wlog[i].at = lastMutAt + DELAY
         /\ wlog[i].ver = dataVer
         /\ wlog[i].snap = Sanitized(data)
         /\ wlog[i].ok => lsData = Stringify(wlog[i].snap)
    /\ now < lastMutAt + DELAY => wlog = <<>>
    /\ now > lastMutAt + DELAY => Len(wlog) = 1

\* two mutations less than DELAY apart, the first never written, the second
\* written once when its window closed
C4_BurstWrittenOnce ==
  /\ page = "open"
  /\ dataVer = 2
  /\ lastMutAt > 0 /\ lastMutAt < DELAY
  /\ now >= lastMutAt + DELAY
  /\ Len(wlog) = 1 /\ wlog[1].ok
  /\ written = <<0, 2>>

\* C5: once the flush on beforeunload has written the pending snapshot, the
\* timeout is cancelled: no saveState call follows the flush unless `data` is
\* replaced again.
C5_FlushCancelsTimer ==
  \A i \in DOMAIN wlog : wlog[i].by = "flush" => i = Len(wlog)

\* C6: once beforeunload has been handled, and no write has failed, storage
\* holds the sanitized form of the latest in-memory snapshot.
C6_NothingLostOnTeardown ==
  (page # "open" /\ \A i \in DOMAIN wlog : wlog[i].ok) =>
    lsData = Stringify(Sanitized(data))

\* C7: the versions of `data` durably written never go back: a write made
\* after another carries the same or a later snapshot.
C7_WriteOrder ==
  \A i, j \in DOMAIN written : i < j => written[i] <= written[j]

\* the mounted snapshot and two later ones, each written in its turn
C7_ThreeVersionsWritten ==
  /\ Len(written) >= 3
  /\ {0, 1, 2} \subseteq Range(written)

\* C8: the stored ring holds at most MAX_BACKUPS entries; they are the
\* entries pushed last, newest first, so that a push onto a full ring evicts
\* the oldest one.
C8_RingBound ==
  /\ Len(StoredRing(lsBackups)) <= MAX_BACKUPS
  /\ Len(StoredRing(lsBackups)) = Min(Len(pushed), MAX_BACKUPS)
  /\ \A i \in 1..Len(StoredRing(lsBackups)) : StoredRing(lsBackups)[i] = pushed[i]

\* seven entries pushed, of different snapshots, onto a ring of five
C8_SevenPushed ==
  /\ Len(pushed) = MAX_BACKUPS + 2
  /\ Len(StoredRing(lsBackups)) = MAX_BACKUPS
  /\ pushed[1] # pushed[2]
  /\ pushed[MAX_BACKUPS + 1] # pushed[1]

\* C9: a step calls pushBackup exactly when it is an import that replaces
\* `data`, and then once, with the snapshot the handler held before the
\* replacement; no other step changes the ring.
C9_BackupOncePerImport ==
  [][ /\ pushes' - pushes = accepted' - accepted
      /\ pushes' - pushes \in {0, 1}
      /\ accepted' # accepted => dataVer' = dataVer + 1
      /\ lsBackups' # lsBackups =>
           /\ accepted' = accepted + 1
           /\ \E call \in importing : StoredRing(lsBackups')[1].data = call.data ]_vars

\* an incremental edit and an accepted import, whose backup was stored
C9_EditThenImport ==
  /\ pushes = 1
  /\ accepted = 1
  /\ dataVer = 2
  /\ Len(StoredRing(lsBackups)) = 1

\* C10: no snapshot that checkStorageCapacity rejects (more than 4 MiB) is
\* durably written.
C10_OversizeNeverWritten ==
  \A i \in DOMAIN wlog : wlog[i].ok => ~checkStorageCapacity(wlog[i].snap).throws

\* C11: a step in which readJsonFile rejects (the file cannot be read or is
\* not valid JSON) leaves the in-memory snapshot, the durable snapshot record,
\* the backup ring and the Last-Modified marker as they were.
C11_RejectedImportChangesNothing ==
  [][importRejected => UNCHANGED <<data, dataVer, lsData, lsBackups, lsLastModified>>]_vars

\* an import rejected on an open page after an earlier import was accepted:
\* the ring holds a backup and the marker is older than the rejection
C11_RejectedAfterAccepted ==
  /\ failed
  /\ page = "open"
  /\ accepted = 1
  /\ Len(StoredRing(lsBackups)) = 1
  /\ lsLastModified.set /\ lsLastModified.ms < now

\* C12: every step in which readJsonFile resolves with a document whose
\* snapshot is within the storage ceiling accepts the import: `data` is
\* replaced by migrateAndSanitize of the parsed document, whatever its shape.
C12_ParsedImportAccepted ==
  [][\A call \in importing, parsed \in files :
       ( /\ importParsed(call, parsed)
         /\ ~checkStorageCapacity(migrateAndSanitize(parsed, ctr).snap).throws )
       => /\ accepted' = accepted + 1
          /\ data' = migrateAndSanitize(parsed, ctr).snap]_vars

\* C13: when the confirmed removal of a hold X replaces `data`, the new
\* snapshot does not list X, has no angle on X and has no cover image for X.
C13_CascadeDelete ==
  [][\A X \in Range(data.holds) :
       (dataVer' = dataVer + 1 /\ data' = confirmRemoveHoldNext(data, X))
       => /\ X \notin Range(data'.holds)
          /\ \A i \in 1..Len(data'.angles) : data'.angles[i].hold # X
          /\ X \notin DOMAIN data'.holdImages]_vars

\* `data` is what the removal of a hold made of a snapshot, still held by a
\* pending import, in which the hold had two angles and a cover image
C13_RemovedHoldWithAnglesAndCover ==
  \E call \in importing : \E X \in Range(call.data.holds) :
    /\ data = confirmRemoveHoldNext(call.data, X)
    /\ X \in DOMAIN call.data.holdImages
    /\ Len(SelectSeq(call.data.angles, LAMBDA a : a.hold = X)) = 2
    /\ Len(data.holds) = Len(call.data.holds) - 1

\* names is the input list with every name normalized, out the sanitized list
FirstOccurrences(names) ==
  { names[i] : i \in { k \in 1..Len(names) :
                         /\ names[k] # <<>>
                         /\ \A j \in 1..(k - 1) :
                              toLowerCase(names[j]) # toLowerCase(names[k]) } }

NoTwoAlike(out) ==
  \A i, j \in 1..Len(out) : i # j => toLowerCase(out[i]) # toLowerCase(out[j])

HoldsSanitizedFrom(raw, out) ==
  /\ NoTwoAlike(out)
  /\ <<>> \notin Range(out)
  /\ Range(out) = FirstOccurrences([i \in 1..Len(raw) |-> normalizeHoldNameSafe(raw[i])])

\* C14: the list sanitizeHoldList returns has no two names that are equal
\* ignoring case; its names are exactly the normalized input names that are
\* not empty and are the first of their spelling, ignoring case, in input
\* order; so ["Austin", "austin", "AUSTIN "] gives ["Austin"].
C14_FirstOccurrenceWins ==
  /\ (mpc \in {"migrated", "remigrated"} /\ unwrapImportedDb(mdoc).holds.t = "array")
       => HoldsSanitizedFrom(unwrapImportedDb(mdoc).holds.l, mout.snap.holds)
  /\ sanitizeHoldList(RawList("array",
        <<JStr(Austin), JStr(<<"a","u","s","t","i","n">>),
          JStr(<<"A","U","S","T","I","N"," ">>)>>)) = <<Austin>>

\* a list with two spellings of one name, the later one in the other case,
\* and a name that normalizes to nothing, sanitized to the first spelling
C14_TwoSpellingsAndABlank ==
  /\ mpc = "migrated"
  /\ mdoc.f.holds.t = "array" /\ Len(mdoc.f.holds.l) = 3
  /\ normalizeHoldNameSafe(mdoc.f.holds.l[2]) = <<>>
  /\ mdoc.f.holds.l[1] # mdoc.f.holds.l[3]
  /\ normalizeHoldNameSafe(mdoc.f.holds.l[1]) # normalizeHoldNameSafe(mdoc.f.holds.l[3])
  /\ mout.snap.holds = <<normalizeHoldNameSafe(mdoc.f.holds.l[1])>>

\* the value the claim gives for n tenths
Normalized(n) == IF n < 0 THEN 0 ELSE IF n > 900 THEN 900 ELSE n

ValueIn(doc) == doc.f.angles.l[1].value
ValueOut(snap) == snap.angles[1].value

\* C15: the sanitized angle value lies in [0, 90]; a number, or a string that
\* writes a number with '.' or ',', gives 0 when below 0, 90 when above 90
\* and itself in between; a value that is absent, not finite or no number
\* gives 0. Values are in tenths.
C15_ValueNormalized ==
  mpc \in {"migrated", "remigrated"} =>
    /\ Len(mout.snap.angles) = 1
    /\ ValueOut(mout.snap) \in 0..900
    /\ \A n \in Tenths, r \in Renderings :
         ValueIn(mdoc) = Rendered(n, r) => ValueOut(mout.snap) = Normalized(n)
    /\ ValueIn(mdoc) \in NotNumeric => ValueOut(mout.snap) = 0

\* "91,5" migrated to 90
C15_CommaAboveNinety ==
  /\ mpc = "migrated"
  /\ ValueIn(mdoc) = JStr(<<"9","1",",","5">>)
  /\ ValueOut(mout.snap) = 900

\* C16: a saveState call whose localStorage.setItem throws returns normally:
\* the step leaves `data`, which is the snapshot it was saving, and the page
\* as they were, and the durable record and its Last-Modified marker keep
\* their previous values.
C16_RejectedWriteKeepsBoth ==
  [][(Len(wlog') = Len(wlog) + 1 /\ ~wlog'[Len(wlog')].ok)
     => /\ data' = data /\ dataVer' = dataVer
        /\ wlog'[Len(wlog')].ver = dataVer
        /\ wlog'[Len(wlog')].snap = Sanitized(data)
        /\ lsData' = lsData
        /\ lsLastModified' = lsLastModified
        /\ page' # "unloaded"]_vars

\* an edited snapshot whose write was rejected: memory holds the edit, the
\* record the snapshot from before it
C16_EditNotPersisted ==
  /\ page = "open"
  /\ dataVer = 1
  /\ Len(wlog) = 1 /\ ~wlog[1].ok
  /\ written = <<0>>
  /\ lsData # Stringify(Sanitized(data))

\* the snapshot the claim gives for a load
LoadReturns(stored, ldst) ==
  IF ldst = "readThrows" \/ stored.t # "json"
  THEN migrateAndSanitize(SeedDoc, 0).snap
  ELSE migrateAndSanitize(stored.doc, 0).snap

\* C17: whenever the page is opened, loadState returns and `data` starts as
\* the sanitized seed when the record is missing, is no JSON or the read
\* throws, and as migrateAndSanitize of the parsed record in every other case.
C17_LoadReturnsParsedOrSeed ==
  [][\A ldst \in LoadOutcomes, st \in StorageOutcomes :
       (page = "unloaded" /\ Opened(loadState(lsData, lsLastModified, ldst, now), st))
       => data' = LoadReturns(lsData, ldst)]_vars

\* C18: at most one timeout of the write scheduler is pending in the browser,
\* and it is the one the scheduler holds a handle to: a mutation clears the
\* timeout scheduled before it when it schedules the next.
C18_OneTimerPending ==
  /\ Cardinality(timeouts) <= 1
  /\ timeouts = IF timer.armed THEN {timer} ELSE {}

\* a second mutation made while the timeout of the first was still pending
C18_RescheduledWhilePending ==
  /\ page = "open"
  /\ dataVer = 2
  /\ lastMutAt > 0 /\ lastMutAt < DELAY
  /\ now < lastMutAt + DELAY
  /\ timeouts = {Timer(lastMutAt + DELAY, 2, data)}

HoldNames(f) == {f.holds.l[i].s : i \in 1..Len(f.holds.l)}

CanonicalAngle(a, names) ==
  /\ a.hold.t = "string" /\ a.hold.s \in names
  /\ a.value.t = "number" /\ a.value.n \in 0..900
  /\ a.saw \in {JStr(<<"main">>), JStr(<<"stefan">>)}

CanonicalFields(f) ==
  /\ f.holds.t = "array"
  /\ \A i \in 1..Len(f.holds.l) : f.holds.l[i].t = "string"
  /\ NoTwoAlike([i \in 1..Len(f.holds.l) |-> f.holds.l[i].s])
  /\ f.angles.t = "array"
  /\ \A i \in 1..Len(f.angles.l) : CanonicalAngle(f.angles.l[i], HoldNames(f))
  /\ f.holdImages.t = "object"
  /\ DOMAIN f.holdImages.m \subseteq HoldNames(f)

\* a stored record that is a canonical snapshot
Canonical(rec) ==
  /\ rec.t = "json"
  /\ rec.version = LS_VERSION
  /\ rec.doc.t = "object" /\ rec.doc.data.t = "undefined"
  /\ CanonicalFields(rec.doc.f)

\* C19: every value written to the durable snapshot key is a canonical
\* snapshot (version 1, no two holds equal ignoring case, every angle on a
\* listed hold with a value in [0, 90] and category main or stefan, every
\* cover key a listed hold), whatever the in-memory snapshot contains; so the
\* record is canonical from the first write that succeeds.
C19_WritesAreCanonical ==
  [][lsData' # lsData => Canonical(lsData')]_vars

\* C19 as stated: on an opened page the durable record is a canonical
\* snapshot in every reachable state.
C19_RecordCanonicalAfterStartup ==
  page # "unloaded" => Canonical(lsData)

\* an in-memory snapshot with a cover for a hold it no longer lists, saved
\* over a record that was not canonical
C19_IllFormedSaved ==
  /\ page = "open"
  /\ ~WellFormed(data)
  /\ Len(wlog) = 1 /\ wlog[1].ok
  /\ written = <<2>>
  /\ Canonical(lsData)

\* C20: when the holds field of the document is absent or is not a list, the
\* hold list migrateAndSanitize returns is the sanitized seed list.
C20_SeedOnAbsentOrInvalidHolds ==
  (mpc \in {"migrated", "remigrated"} /\ unwrapImportedDb(mdoc).holds.t # "array")
    => mout.snap.holds = sanitizeHoldList(DEFAULT_HOLDS)

\* the angles migrateAndSanitize loops over, and those of them it retains
AnglesIn(f) == IF f.angles.t = "array" THEN f.angles.l ELSE DEFAULT_ANGLES
RetainedIn(f, holds) ==
  SelectSeq(AnglesIn(f), LAMBDA a : normalizeHoldNameSafe(a.hold) \in Range(holds))

\* an earlier retained angle carries the same id
SeenBefore(kept, k) == \E j \in 1..(k - 1) : kept[j].id = kept[k].id

IdsFrom(kept, angles) ==
  /\ Len(angles) = Len(kept)
  /\ \A k \in 1..Len(kept) :
       /\ (HasId(kept[k]) /\ ~SeenBefore(kept, k)) => angles[k].id = kept[k].id.s
       /\ (HasId(kept[k]) /\ SeenBefore(kept, k)) =>
            (angles[k].id # kept[k].id.s /\ angles[k].id[1] = "uuid")

\* C21: the angle ids of a snapshot migrateAndSanitize returns are non-empty
\* and pairwise distinct; of the retained input angles that carry one id, the
\* first keeps it and every later one has a freshly generated id.
C21_DistinctIds ==
  mpc \in {"migrated", "remigrated"} =>
    /\ \A i \in 1..Len(mout.snap.angles) : mout.snap.angles[i].id # <<>>
    /\ \A i, j \in 1..Len(mout.snap.angles) :
         i # j => mout.snap.angles[i].id # mout.snap.angles[j].id
    /\ IdsFrom(RetainedIn(unwrapImportedDb(mdoc), mout.snap.holds), mout.snap.angles)

\* two retained angles with the id "x": the first keeps it, the second has a
\* generated one
C21_SecondRegenerated ==
  /\ mpc = "migrated"
  /\ Len(mdoc.f.angles.l) = 2
  /\ mdoc.f.angles.l[1].id = JStr(<<"x">>) /\ mdoc.f.angles.l[2].id = JStr(<<"x">>)
  /\ Len(mout.snap.angles) = 2
  /\ mout.snap.angles[1].id = <<"x">>
  /\ mout.snap.angles[2].id = cryptoRandomId(1)

\* C22: the Last-Modified marker changes only in a step in which a durable
\* write of the snapshot succeeds.
C22_MarkerChangesOnlyOnWrite ==
  [][lsLastModified' # lsLastModified => written' # written]_vars

\* the state after a rename of oldName to nextName has the hold, the angles
\* and the cover image under the new name
Renamed(prev, next, oldName, nextName) ==
  /\ nextName \in Range(next.holds)
  /\ Len(next.angles) = Len(prev.angles)
  /\ \A i \in 1..Len(prev.angles) :
       prev.angles[i].hold = oldName => next.angles[i].hold = nextName
  /\ oldName \in DOMAIN prev.holdImages =>
       /\ nextName \in DOMAIN next.holdImages
       /\ next.holdImages[nextName] = prev.holdImages[oldName]

\* C23: every accepted rename of a hold to a normalized name, the unchanged
\* name and its case variants included, leaves the new name in the hold list,
\* re-points the hold's angles to it and keeps the hold's cover image under it.
C23_RenameCascade ==
  [][\A oldName \in Range(data.holds), typed \in TypedNames :
       ( /\ RenameAccepted(data.holds, oldName, normalizeHoldName(typed))
         /\ saveRenameTo(oldName, normalizeHoldName(typed)) )
       => Renamed(data, data', oldName, normalizeHoldName(typed))]_vars

\* C24: the backup entry an import stores holds the in-memory snapshot the
\* import replaces, whatever was applied to it while the file was being read.
C24_BackupOfCurrentSnapshot ==
  [][lsBackups' # lsBackups => StoredRing(lsBackups')[1].data = data]_vars

\* C25: when the pushBackup of an import with holds fails (localStorage throws
\* or the stored ring does not parse) the ring stays as it was and the import
\* still replaces `data` with the imported snapshot.
C25_FailedBackupNotFatal ==
  [][\A call \in importing, parsed \in files :
       ( /\ importParsed(call, parsed)
         /\ Len(migrateAndSanitize(parsed, ctr).snap.holds) > 0
         /\ pushed' = pushed )
       => /\ lsBackups' = lsBackups
          /\ data' = migrateAndSanitize(parsed, ctr).snap
          /\ accepted' = accepted + 1]_vars

\* an accepted import whose backup was not stored
C25_ImportedWithoutBackup ==
  /\ accepted = 1
  /\ pushes = 1
  /\ pushed = <<>>
  /\ lsBackups = NoBackups
  /\ dataVer = 1
  /\ data = migrateAndSanitize(ExportedFile, 0).snap

\* saveState was called once with the latest `data` since it was set: by the
\* timeout callback, or by App's save effect when the page was mounted
LatestAttemptedOnce ==
  \/ Len(wlog) = 1 /\ wlog[1].ver = dataVer /\ wlog[1].by = "timer"
  \/ wiring = "useDebounce" /\ dataVer = 0 /\ wlog = <<>>

Settled ==
  /\ ~timer.armed
  /\ timeouts = {}
  /\ ~pendingRef.set
  /\ LatestAttemptedOnce

\* C26: on an open page every version of `data` is followed by a later
\* mutation, by the teardown of the page, or by a state in which saveState
\* has been called with it and neither a timeout nor a snapshot is pending;
\* that state lasts, without another saveState call, until the next mutation
\* or the teardown.
C26_EventuallySettled ==
  /\ \A k \in 0..MaxSchedEdits :
       (page = "open" /\ dataVer = k) ~> (page # "open" \/ dataVer # k \/ Settled)
  /\ [][(Settled /\ page' = "open" /\ dataVer' = dataVer) => Settled']_vars

\* the second mutation's snapshot has been handed to saveState by the timeout
\* and the page is still open
C26_SettledAfterTwoEdits ==
  /\ page = "open"
  /\ dataVer = 2
  /\ Settled
  /\ wlog[1].at = lastMutAt + DELAY

\* C27: in every reachable state no two in-memory holds are equal ignoring
\* case, and a step of addHold or saveRenameHold whose normalized name is,
\* ignoring case, the name of a different existing hold leaves `data` as it is.
C27_HoldsStayDistinct ==
  /\ []NoTwoAlike(data.holds)
  /\ [][\A typed \in TypedNames :
         /\ ( /\ addHoldNamed(normalizeHoldName(typed))
              /\ CollidesWith(normalizeHoldName(typed), data.holds) )
            => UNCHANGED <<data, dataVer>>
         /\ \A oldName \in Range(data.holds) :
              ( /\ saveRenameTo(oldName, normalizeHoldName(typed))
                /\ toLowerCase(normalizeHoldName(typed)) # toLowerCase(oldName)
                /\ CollidesWith(normalizeHoldName(typed), data.holds) )
              => UNCHANGED <<data, dataVer>>]_vars

\* "Amon" has been renamed to "amon" and "B" added: typing "Amon" for a new
\* hold, or for "B", now collides
C27_CaseVariantInList ==
  /\ dataVer = 2
  /\ data.holds = sortHolds(<<Anton, Austin, <<"a","m","o","n">>, NameB>>)
  /\ CollidesWith(Amon, data.holds)
  /\ Amon \notin Range(data.holds)

\* C28: once a saveState call of the scheduler has failed, the durable record
\* keeps its value until the next mutation: no later call writes the snapshot
\* that was not persisted.
C28_FailedWriteNotRetried ==
  [][(\E i \in DOMAIN wlog : ~wlog[i].ok) => lsData' = lsData]_vars

\* the cover images of the raw document, by the key they are stored under
RawImages(f) == IF f.holdImages.t = "object" THEN f.holdImages.m ELSE EmptyMap

\* C29: the angles migrateAndSanitize returns are the input angles whose
\* normalized hold is, letter for letter, a surviving hold, each under that
\* hold; a cover image it returns for a hold is the one stored under that very
\* key. An angle or cover whose name differs from the surviving hold only in
\* case is dropped.
C29_ExactHoldMatch ==
  mpc \in {"migrated", "remigrated"} =>
    /\ Len(mout.snap.angles) = Len(RetainedIn(unwrapImportedDb(mdoc), mout.snap.holds))
    /\ \A k \in 1..Len(mout.snap.angles) :
         mout.snap.angles[k].hold =
           normalizeHoldNameSafe(RetainedIn(unwrapImportedDb(mdoc), mout.snap.holds)[k].hold)
    /\ \A h \in DOMAIN mout.snap.holdImages :
         /\ h \in DOMAIN RawImages(unwrapImportedDb(mdoc))
         /\ mout.snap.holdImages[h] = RawImages(unwrapImportedDb(mdoc))[h].s

\* "A" survives "a"; the angle on " a " and the cover stored under "a" are
\* gone, the angle on "A" is kept
C29_LowerCaseDropped ==
  /\ mpc = "migrated"
  /\ mdoc.f.holds.l = <<JStr(<<" ","A","\t">>), JStr(NameLowerA)>>
  /\ Len(mdoc.f.angles.l) = 2 /\ mdoc.f.angles.l[1] # mdoc.f.angles.l[2]
  /\ DOMAIN mdoc.f.holdImages.m = {NameLowerA}
  /\ mout.snap.holds = <<NameA>>
  /\ Len(mout.snap.angles) = 1 /\ mout.snap.angles[1].id = <<"p">>
  /\ mout.snap.holdImages = EmptyMap

\* C30: a pushBackup that finds a stored value which parses but is no list
\* stores a ring of exactly the new entry; one that finds a stored value which
\* does not parse leaves it as it is and records nothing, each time.
C30_DamagedRingTolerated ==
  [][pushes' # pushes =>
       /\ lsBackups.t = "corrupt" => (lsBackups' = lsBackups /\ pushed' = pushed)
       /\ (lsBackups = NotARing /\ pushed' # pushed) =>
            \E call \in importing : lsBackups' = Backups(<<BackupEntry(now, call.data)>>)]_vars

\* two imports were accepted on an unparsable ring: it is as it was
C30_TwoPushesOnCorruptRing ==
  /\ lsBackups = CorruptRing
  /\ pushes = 2
  /\ accepted = 2
  /\ pushed = <<>>
====
